---- MODULE Spec2Model ----
(***************************************************************************)
(* Model of DataCollectionAgent (src/agent/data_collection_agent.py): the  *)
(* collection loop collect_data with its request counters, data store,     *)
(* quality scores and adaptive delay multiplier.                           *)
(*                                                                         *)
(* Floats are modelled as exact rationals [num, den] in lowest terms; all  *)
(* comparisons the code makes (0.5, 0.8, 0.9) are made on the rationals.   *)
(***************************************************************************)
EXTENDS Integers, Sequences, FiniteSets, TLC

VARIABLES config, data_store, collection_stats, delay_multiplier,
          snapshot, data, pc, reports, delays, iterations, fetches,
          sleep, arg, ret

vars == <<config, data_store, collection_stats, delay_multiplier,
          snapshot, data, pc, reports, delays, iterations, fetches,
          sleep, arg, ret>>

-----------------------------------------------------------------------------
(* Bounds of the model *)

MaxRequests == 2

MaxCities == 2

MaxCount == 10

MaxLen == 2

MaxTotal == 15

MaxSuccessful == 12

MaxFailed == 6

MaxIterations == 4

CounterCap == (MaxRequests + 2) * (MaxCities + 2)

-----------------------------------------------------------------------------
(* Rational arithmetic standing for Python floats *)

RECURSIVE GCD(_, _)
GCD(a, b) == IF b = 0 THEN a ELSE GCD(b, a % b)

Rat(n, d) == LET g == GCD(n, d) IN [num |-> n \div g, den |-> d \div g]

RatMul(r, n, d) == Rat(r.num * n, r.den * d)

RatAdd(r, s) == Rat(r.num * s.den + s.num * r.den, r.den * s.den)

RatLt(r, n, d) == r.num * d < n * r.den

RatGt(r, n, d) == r.num * d > n * r.den

RECURSIVE Pow2(_)
Pow2(k) == IF k = 0 THEN 1 ELSE 2 * Pow2(k - 1)

RECURSIVE RatSum(_)
RatSum(s) == IF s = <<>> THEN Rat(0, 1) ELSE RatAdd(Head(s), RatSum(Tail(s)))

-----------------------------------------------------------------------------
(* JSON values: a number, null, or an absent key *)

Val(v) == [tag |-> "num", v |-> v]

Null == [tag |-> "null", v |-> 0]

Absent == [tag |-> "absent", v |-> 0]

(* rec.get(key) is None: the key is absent or its value is null *)
GetIsNone(f) == f.tag # "num"

(* key in rec *)
HasKey(f) == f.tag # "absent"

TempVals == {20}

(* Bodies the weather API can answer with for city c *)
GoodPayload(c, t) == [name |-> Val(c), temp |-> Val(t), humidity |-> Val(60), weather |-> Val(1)]

NullTempPayload(c) == [name |-> Val(c), temp |-> Null, humidity |-> Val(60), weather |-> Val(1)]

NoMainPayload(c) == [name |-> Val(c), temp |-> Absent, humidity |-> Absent, weather |-> Val(1)]

Payloads(c) == {GoodPayload(c, t) : t \in TempVals} \cup {NullTempPayload(c), NoMainPayload(c)}

NullHumidityPayload(c) == [name |-> Val(c), temp |-> Val(20), humidity |-> Null, weather |-> Val(1)]

(* Outcome of requests.get + raise_for_status + json for city c *)
Failure == [ok |-> FALSE, body |-> NoMainPayload(0)]

Responses(c) == {Failure} \cup {[ok |-> TRUE, body |-> p] : p \in Payloads(c)}

(* the same with a null humidity among the bodies *)
AnyResponses(c) == Responses(c) \cup {[ok |-> TRUE, body |-> NullHumidityPayload(c)]}

None == [is_none |-> TRUE, items |-> <<>>]

Some(s) == [is_none |-> FALSE, items |-> s]

NoFile == [exists |-> FALSE, content |-> <<>>]

(* random.uniform(0.5, 1.5): both ends and the middle *)
Jitters == {Rat(1, 2), Rat(1, 1), Rat(3, 2)}

(* no time.sleep in progress *)
NoSleep == Rat(0, 1)

(* no call argument, no returned value *)
NoArg == [kind |-> "none", val |-> <<>>]

NoRet == [kind |-> "none", val |-> <<>>]

-----------------------------------------------------------------------------
(* Pure functions of DataCollectionAgent *)

(* collection_complete with the comparison on the wrong counter *)
collection_complete_successful ==
    collection_stats.successful_requests >= config.max_requests

(* collection_complete with a strict comparison *)
collection_complete_strict ==
    collection_stats.total_requests > config.max_requests

collection_complete ==
    collection_stats.total_requests >= config.max_requests

(* get_success_rate treating no attempts as a rate of 0 *)
get_success_rate_zero ==
    LET total == collection_stats.total_requests IN
    IF total = 0 THEN Rat(0, 1)
    ELSE Rat(collection_stats.successful_requests, total)

get_success_rate ==
    LET total == collection_stats.total_requests IN
    IF total = 0 THEN Rat(1, 1)
    ELSE Rat(collection_stats.successful_requests, total)

(* adjust_strategy with <= 0.5 and >= 0.9 *)
adjust_strategy_inclusive ==
    LET success_rate == get_success_rate IN
    IF ~RatGt(success_rate, 1, 2) THEN RatMul(delay_multiplier, 2, 1)
    ELSE IF ~RatLt(success_rate, 9, 10) THEN RatMul(delay_multiplier, 4, 5)
    ELSE delay_multiplier

(* the new delay multiplier *)
adjust_strategy ==
    LET success_rate == get_success_rate IN
    IF RatLt(success_rate, 1, 2) THEN RatMul(delay_multiplier, 2, 1)
    ELSE IF RatGt(success_rate, 9, 10) THEN RatMul(delay_multiplier, 4, 5)
    ELSE delay_multiplier

(* the score with a null temperature counted as a missing one *)
quality_score_not_none ==
    IF data_store = <<>> THEN Rat(0, 1)
    ELSE LET completeness ==
                 IF \A i \in 1..Len(data_store) : ~GetIsNone(data_store[i].temperature)
                 THEN Rat(1, 1) ELSE Rat(1, 2)
             total == RatAdd(RatAdd(completeness, Rat(1, 1)), RatAdd(Rat(1, 1), Rat(1, 1)))
         IN RatMul(total, 1, 4)

(* the score assess_data_quality returns *)
quality_score ==
    IF data_store = <<>> THEN Rat(0, 1)
    ELSE LET completeness ==
                 IF \A i \in 1..Len(data_store) : HasKey(data_store[i].temperature)
                 THEN Rat(1, 1) ELSE Rat(1, 2)
             consistency == Rat(1, 1)
             accuracy == Rat(1, 1)
             timeliness == Rat(1, 1)
             total == RatAdd(RatAdd(completeness, consistency), RatAdd(accuracy, timeliness))
         IN RatMul(total, 1, 4)

(* assess_data_quality recording the score of an empty store as well *)
assess_data_quality_always ==
    Append(collection_stats.data_quality_scores, quality_score)

(* assess_data_quality without the append of the score *)
assess_data_quality_unrecorded == collection_stats.data_quality_scores

(* the new data_quality_scores *)
assess_data_quality ==
    IF data_store = <<>> THEN collection_stats.data_quality_scores
    ELSE Append(collection_stats.data_quality_scores, quality_score)

get_overall_quality_score ==
    LET scores == collection_stats.data_quality_scores
        n == IF Len(scores) > 1 THEN Len(scores) ELSE 1
    IN RatMul(RatSum(scores), 1, n)

(* the successful bodies, in city order *)
RECURSIVE Results(_, _)
Results(resp, n) ==
    IF n = 0 THEN <<>>
    ELSE IF resp[n].ok THEN Append(Results(resp, n - 1), resp[n].body)
         ELSE Results(resp, n - 1)

NumOk(resp) == Cardinality({c \in DOMAIN resp : resp[c].ok})

(* make_api_request counting one request per city *)
make_api_request_stats_per_city(resp) ==
    [collection_stats EXCEPT
        !.total_requests = @ + Len(config.cities),
        !.successful_requests = @ + NumOk(resp),
        !.failed_requests = @ + (Len(config.cities) - NumOk(resp))]

(* the statistics after make_api_request, resp[c] the outcome for city c *)
make_api_request_stats(resp) ==
    [collection_stats EXCEPT
        !.total_requests = @ + 1,
        !.successful_requests = @ + NumOk(resp),
        !.failed_requests = @ + (Len(config.cities) - NumOk(resp))]

(* the bodies of the cities before the first failing one *)
RECURSIVE ResultsAbort(_, _, _)
ResultsAbort(resp, c, n) ==
    IF c > n \/ ~resp[c].ok THEN <<>>
    ELSE <<resp[c].body>> \o ResultsAbort(resp, c + 1, n)

(* make_api_request with the try around the whole loop: the first failing  *)
(* city ends the batch                                                     *)
make_api_request_result_abort(resp) ==
    LET results == ResultsAbort(resp, 1, Len(config.cities)) IN
    IF results = <<>> THEN None ELSE Some(results)

(* the value make_api_request returns *)
make_api_request_result(resp) ==
    LET results == Results(resp, Len(config.cities)) IN
    IF results = <<>> THEN None ELSE Some(results)

WellFormed(p) ==
    HasKey(p.name) /\ HasKey(p.temp) /\ HasKey(p.humidity) /\ HasKey(p.weather)

(* a body with every key present and temperature and humidity not null *)
Complete(p) == WellFormed(p) /\ ~GetIsNone(p.temp) /\ ~GetIsNone(p.humidity)

(* process_data with the try around the whole loop: the first malformed     *)
(* payload ends the processing                                             *)
RECURSIVE process_data_abort(_)
process_data_abort(data_list) ==
    IF data_list = <<>> THEN <<>>
    ELSE LET p == Head(data_list)
         IN IF WellFormed(p)
            THEN <<[city |-> p.name, temperature |-> p.temp,
                    humidity |-> p.humidity, weather |-> p.weather]>>
                    \o process_data_abort(Tail(data_list))
            ELSE <<>>

RECURSIVE process_data(_)
process_data(data_list) ==
    IF data_list = <<>> THEN <<>>
    ELSE LET p == Head(data_list)
             rest == process_data(Tail(data_list))
         IN IF WellFormed(p)
            THEN <<[city |-> p.name, temperature |-> p.temp,
                    humidity |-> p.humidity, weather |-> p.weather]>> \o rest
            ELSE rest

(* validate_data that forgets the humidity *)
validate_data_temperature_only(records) ==
    /\ records # <<>>
    /\ \A i \in 1..Len(records) : ~GetIsNone(records[i].temperature)

(* validate_data accepting a batch as soon as one record is complete *)
validate_data_any(records) ==
    /\ records # <<>>
    /\ \E i \in 1..Len(records) :
          ~(GetIsNone(records[i].temperature) \/ GetIsNone(records[i].humidity))

validate_data(records) ==
    /\ records # <<>>
    /\ \A i \in 1..Len(records) :
          ~(GetIsNone(records[i].temperature) \/ GetIsNone(records[i].humidity))

(* detect_anomalies with the limits -40 and 50 counted as anomalous *)
IsAnomalousInclusive(rec) ==
    LET t == rec.temperature IN
    ~GetIsNone(t) /\ (t.v <= -40 \/ t.v >= 50)

(* t is not None and (t < -40 or t > 50) *)
IsAnomalous(rec) ==
    LET t == rec.temperature IN
    ~GetIsNone(t) /\ (t.v < -40 \/ t.v > 50)

detect_anomalies == SelectSeq(data_store, IsAnomalous)

NotStored(rec) == \A i \in 1..Len(data_store) : data_store[i] # rec

(* store_data skipping the records that are stored already *)
store_data_dedup(records) == data_store \o SelectSeq(records, NotStored)

(* store_data replacing the store by the batch *)
store_data_replace(records) == records

(* the new data_store; the snapshot file is rewritten with it *)
store_data(records) == data_store \o records

-----------------------------------------------------------------------------
(* State after __init__ *)

Cities(n) == [c \in 1..n |-> c]

FreshStats ==
    [total_requests |-> 0, successful_requests |-> 0, failed_requests |-> 0,
     data_quality_scores |-> <<>>]

Init ==
    /\ config \in [cities : {Cities(n) : n \in 0..MaxCities},
                   max_requests : 0..MaxRequests,
                   base_delay : {2}]
    /\ data_store = <<>>
    /\ collection_stats = FreshStats
    /\ delay_multiplier = Rat(1, 1)
    /\ snapshot = NoFile
    /\ data = None
    /\ pc = "while"
    /\ reports = 0
    /\ delays = 0
    /\ iterations = 0
    /\ fetches = [all_good |-> TRUE, all_failed |-> TRUE, mixed |-> FALSE,
                  null_humidity |-> FALSE]
    /\ sleep = NoSleep
    /\ arg = NoArg
    /\ ret = NoRet

-----------------------------------------------------------------------------
(* collect_data, one action per statement of the loop *)

(* while not self.collection_complete() *)
WhileCheck ==
    /\ pc = "while"
    /\ pc' = IF collection_complete THEN "report" ELSE "assess"
    /\ UNCHANGED <<config, data_store, collection_stats, delay_multiplier,
                   snapshot, data, reports, delays, iterations, fetches, sleep, arg, ret>>

(* self.assess_data_quality() *)
AssessStep ==
    /\ pc = "assess"
    /\ collection_stats' =
          [collection_stats EXCEPT !.data_quality_scores = assess_data_quality]
    /\ pc' = "strategy"
    /\ UNCHANGED <<config, data_store, delay_multiplier, snapshot, data,
                   reports, delays, iterations, fetches, sleep, arg, ret>>

(* the loop calling adjust_strategy in every iteration *)
StrategyStepUnguarded ==
    /\ pc = "strategy"
    /\ delay_multiplier' = adjust_strategy
    /\ pc' = "fetch"
    /\ UNCHANGED <<config, data_store, collection_stats, snapshot, data,
                   reports, delays, iterations, fetches, sleep, arg, ret>>

(* if self.get_success_rate() < 0.8: self.adjust_strategy() *)
StrategyStep ==
    /\ pc = "strategy"
    /\ delay_multiplier' =
          IF RatLt(get_success_rate, 4, 5) THEN adjust_strategy
          ELSE delay_multiplier
    /\ pc' = "fetch"
    /\ UNCHANGED <<config, data_store, collection_stats, snapshot, data,
                   reports, delays, iterations, fetches, sleep, arg, ret>>

(* data = self.make_api_request(), R[c] the outcomes possible for city c *)
Fetch(R) ==
    /\ pc = "fetch"
    /\ collection_stats.total_requests + collection_stats.successful_requests
          + collection_stats.failed_requests < CounterCap
    /\ \E resp \in [1..Len(config.cities) -> UNION {R[c] : c \in 1..MaxCities}] :
          /\ \A c \in 1..Len(config.cities) : resp[c] \in R[c]
          /\ collection_stats' = make_api_request_stats(resp)
          /\ data' = make_api_request_result(resp)
          /\ fetches' =
                [all_good |-> fetches.all_good
                                /\ \A c \in DOMAIN resp : resp[c].ok /\ Complete(resp[c].body),
                 all_failed |-> fetches.all_failed
                                /\ \A c \in DOMAIN resp : ~resp[c].ok,
                 mixed |-> \/ fetches.mixed
                           \/ /\ \E c \in DOMAIN resp : resp[c].ok /\ Complete(resp[c].body)
                              /\ \E c \in DOMAIN resp :
                                    /\ resp[c].ok /\ WellFormed(resp[c].body)
                                    /\ ~Complete(resp[c].body),
                 null_humidity |-> \/ fetches.null_humidity
                                   \/ \E c \in DOMAIN resp :
                                         /\ resp[c].ok
                                         /\ resp[c].body.temp.tag = "num"
                                         /\ resp[c].body.humidity.tag = "null"]
    /\ pc' = "process"
    /\ UNCHANGED <<config, data_store, delay_multiplier, snapshot,
                   reports, delays, iterations, sleep, arg, ret>>

FetchStep == Fetch([c \in 1..MaxCities |-> AnyResponses(c)])

(* the fetch under fairness: whether the loop ends does not depend on     *)
(* what the bodies hold                                                    *)
FetchStepPlain == Fetch([c \in 1..MaxCities |-> Responses(c)])

(* the loop storing every processed batch, validated or not *)
ProcessStepUnvalidated ==
    /\ pc = "process"
    /\ LET processed == process_data(data.items) IN
       IF ~data.is_none /\ data.items # <<>>
       THEN /\ data_store' = store_data(processed)
            /\ snapshot' = [exists |-> TRUE, content |-> data_store']
       ELSE UNCHANGED <<data_store, snapshot>>
    /\ data' = None
    /\ pc' = "delay"
    /\ UNCHANGED <<config, collection_stats, delay_multiplier,
                   reports, delays, iterations, fetches, sleep, arg, ret>>

(* if data: processed = process_data(data); if validate_data(processed): store_data(processed) *)
(* data is not read again before the next fetch assigns it *)
ProcessStep ==
    /\ pc = "process"
    /\ LET processed == process_data(data.items) IN
       IF ~data.is_none /\ data.items # <<>> /\ validate_data(processed)
       THEN /\ data_store' = store_data(processed)
            /\ snapshot' = [exists |-> TRUE, content |-> data_store']
       ELSE UNCHANGED <<data_store, snapshot>>
    /\ data' = None
    /\ pc' = "delay"
    /\ UNCHANGED <<config, collection_stats, delay_multiplier,
                   reports, delays, iterations, fetches, sleep, arg, ret>>

(* respectful_delay ignoring the delay multiplier *)
respectful_delay_base_only(jitter) ==
    RatMul(Rat(config.base_delay, 1), jitter.num, jitter.den)

(* the argument respectful_delay passes to time.sleep *)
respectful_delay(jitter) ==
    LET base_delay == config.base_delay
        delay == RatMul(delay_multiplier, base_delay, 1)
    IN RatMul(delay, jitter.num, jitter.den)

(* the loop with generate_final_report indented into its body *)
DelayStepReporting ==
    /\ pc = "delay"
    /\ \E jitter \in Jitters : sleep' = respectful_delay(jitter)
    /\ delays' = delays + 1
    /\ reports' = reports + 1
    /\ pc' = "sleeping"
    /\ UNCHANGED <<config, data_store, collection_stats, delay_multiplier,
                   snapshot, data, iterations, fetches, arg, ret>>

(* self.respectful_delay(): time.sleep(delay * jitter) is entered *)
DelayStep ==
    /\ pc = "delay"
    /\ \E jitter \in Jitters : sleep' = respectful_delay(jitter)
    /\ delays' = delays + 1
    /\ pc' = "sleeping"
    /\ UNCHANGED <<config, data_store, collection_stats, delay_multiplier,
                   snapshot, data, reports, iterations, fetches, arg, ret>>

(* time.sleep returns: the iteration is over *)
SleepReturn ==
    /\ pc = "sleeping"
    /\ sleep' = NoSleep
    /\ iterations' = iterations + 1
    /\ pc' = "while"
    /\ UNCHANGED <<config, data_store, collection_stats, delay_multiplier,
                   snapshot, data, reports, delays, fetches, arg, ret>>

(* self.generate_final_report() *)
ReportStep ==
    /\ pc = "report"
    /\ reports' = reports + 1
    /\ pc' = "done"
    /\ UNCHANGED <<config, data_store, collection_stats, delay_multiplier,
                   snapshot, data, delays, iterations, fetches, sleep, arg, ret>>

Next ==
    \/ WhileCheck
    \/ AssessStep
    \/ StrategyStep
    \/ FetchStep
    \/ ProcessStep
    \/ DelayStep
    \/ SleepReturn
    \/ ReportStep

Spec == Init /\ [][Next]_vars

FairNext ==
    \/ WhileCheck
    \/ AssessStep
    \/ StrategyStep
    \/ FetchStepPlain
    \/ ProcessStep
    \/ DelayStep
    \/ SleepReturn
    \/ ReportStep

(* The loop is the only thread: every enabled statement is eventually run   *)
(* (each network call returns or times out, each sleep is finite).         *)
FairSpec == Init /\ [][FairNext]_vars /\ WF_vars(FairNext)

TypeOK ==
    /\ pc \in {"while", "assess", "strategy", "fetch", "process", "delay", "sleeping",
              "report", "done", "call", "returned", "adjust_strategy_done",
              "start", "failed"}
    /\ collection_stats.total_requests \in Nat
    /\ collection_stats.successful_requests \in Nat
    /\ collection_stats.failed_requests \in Nat
    /\ delay_multiplier.den > 0

(* the counter cap of FetchStep never binds *)
CapSlack ==
    pc = "fetch" =>
        collection_stats.total_requests + collection_stats.successful_requests
          + collection_stats.failed_requests < CounterCap

-----------------------------------------------------------------------------
(* collect_data over at most two cities, for longer runs *)

LongInit ==
    /\ config \in [cities : {Cities(0), Cities(1), Cities(2)},
                   max_requests : 0..MaxIterations,
                   base_delay : {2}]
    /\ data_store = <<>>
    /\ collection_stats = FreshStats
    /\ delay_multiplier = Rat(1, 1)
    /\ snapshot = NoFile
    /\ data = None
    /\ pc = "while"
    /\ reports = 0
    /\ delays = 0
    /\ iterations = 0
    /\ fetches = [all_good |-> TRUE, all_failed |-> TRUE, mixed |-> FALSE,
                  null_humidity |-> FALSE]
    /\ sleep = NoSleep
    /\ arg = NoArg
    /\ ret = NoRet

LongSpec == LongInit /\ [][Next]_vars

-----------------------------------------------------------------------------
(* adjust_strategy called on its own, in any state of the counters *)

UnitInit ==
    /\ config = [cities |-> Cities(1), max_requests |-> MaxRequests, base_delay |-> 2]
    /\ data_store = <<>>
    /\ \E t \in 0..MaxCount, s \in 0..MaxCount, f \in 0..1 :
          collection_stats = [total_requests |-> t, successful_requests |-> s,
                              failed_requests |-> f, data_quality_scores |-> <<>>]
    /\ delay_multiplier \in {Rat(1, 1), Rat(2, 1), Rat(4, 5)}
    /\ snapshot = NoFile
    /\ data = None
    /\ pc = "call"
    /\ reports = 0
    /\ delays = 0
    /\ iterations = 0
    /\ fetches = [all_good |-> TRUE, all_failed |-> TRUE, mixed |-> FALSE,
                  null_humidity |-> FALSE]
    /\ sleep = NoSleep
    /\ arg = NoArg
    /\ ret = NoRet

CallAdjustStrategy ==
    /\ pc = "call"
    /\ delay_multiplier' = adjust_strategy
    /\ pc' = "adjust_strategy_done"
    /\ UNCHANGED <<config, data_store, collection_stats, snapshot, data,
                   reports, delays, iterations, fetches, sleep, arg, ret>>

CallGetSuccessRate ==
    /\ pc = "call"
    /\ ret' = [kind |-> "get_success_rate", val |-> get_success_rate]
    /\ pc' = "returned"
    /\ UNCHANGED <<config, data_store, collection_stats, delay_multiplier, snapshot,
                   data, reports, delays, iterations, fetches, sleep, arg>>

UnitNext ==
    \/ CallAdjustStrategy
    \/ CallGetSuccessRate

UnitSpec == UnitInit /\ [][UnitNext]_vars

-----------------------------------------------------------------------------
(* The methods called on their own, on any input *)

SeqsUpTo(S, n) == UNION {[1..k -> S] : k \in 0..n}

(* records as they can sit in data_store or be passed to validate_data *)
StoreRecords ==
    {[city |-> Val(1), temperature |-> t, humidity |-> Val(60), weather |-> Val(1)] :
        t \in {Val(-41), Val(-40), Val(20), Val(50), Val(51), Null, Absent}}

ArgRecords ==
    [city : {Val(1)}, temperature : {Val(20), Null, Absent},
     humidity : {Val(60), Null, Absent}, weather : {Val(1), Absent}]

(* bodies lacking the name or the weather description *)
NoNamePayload == [name |-> Absent, temp |-> Val(20), humidity |-> Val(60), weather |-> Val(1)]

NoWeatherPayload(c) == [name |-> Val(c), temp |-> Val(20), humidity |-> Val(60), weather |-> Absent]

ArgPayloads ==
    Payloads(1) \cup Payloads(2) \cup {NoNamePayload, NoWeatherPayload(1)}

UsedStats ==
    [total_requests |-> 2, successful_requests |-> 3, failed_requests |-> 1,
     data_quality_scores |-> <<Rat(1, 1)>>]

CallInit ==
    /\ collection_stats \in {FreshStats, UsedStats}
    /\ \/ /\ data_store \in SeqsUpTo(StoreRecords, MaxLen)
          /\ arg = NoArg
          /\ config = [cities |-> Cities(MaxCities), max_requests |-> MaxRequests, base_delay |-> 2]
       \/ /\ data_store = <<>>
          /\ arg \in [kind : {"records"}, val : SeqsUpTo(ArgRecords, MaxLen)]
          /\ config = [cities |-> Cities(MaxCities), max_requests |-> MaxRequests, base_delay |-> 2]
       \/ /\ data_store = <<>>
          /\ arg \in [kind : {"payloads"}, val : SeqsUpTo(ArgPayloads, MaxLen)]
          /\ config = [cities |-> Cities(MaxCities), max_requests |-> MaxRequests, base_delay |-> 2]
       \/ /\ data_store = <<>>
          /\ \E n \in 0..MaxCities :
                /\ config = [cities |-> Cities(n), max_requests |-> MaxRequests, base_delay |-> 2]
                /\ arg \in [kind : {"responses"},
                            val : {r \in [1..n -> UNION {Responses(c) : c \in 1..MaxCities}] :
                                      \A c \in 1..n : r[c] \in Responses(c)}]
    /\ delay_multiplier = Rat(1, 1)
    /\ snapshot = NoFile
    /\ data = None
    /\ pc = "call"
    /\ reports = 0
    /\ delays = 0
    /\ iterations = 0
    /\ fetches = [all_good |-> TRUE, all_failed |-> TRUE, mixed |-> FALSE,
                  null_humidity |-> FALSE]
    /\ sleep = NoSleep
    /\ ret = NoRet

CallValidateData ==
    /\ pc = "call"
    /\ arg.kind = "records"
    /\ ret' = [kind |-> "validate_data", val |-> validate_data(arg.val)]
    /\ pc' = "returned"
    /\ UNCHANGED <<config, data_store, collection_stats, delay_multiplier, snapshot,
                   data, reports, delays, iterations, fetches, sleep, arg>>

CallProcessData ==
    /\ pc = "call"
    /\ arg.kind = "payloads"
    /\ ret' = [kind |-> "process_data", val |-> process_data(arg.val)]
    /\ pc' = "returned"
    /\ UNCHANGED <<config, data_store, collection_stats, delay_multiplier, snapshot,
                   data, reports, delays, iterations, fetches, sleep, arg>>

CallMakeApiRequest ==
    /\ pc = "call"
    /\ arg.kind = "responses"
    /\ collection_stats' = make_api_request_stats(arg.val)
    /\ ret' = [kind |-> "make_api_request", val |-> make_api_request_result(arg.val)]
    /\ pc' = "returned"
    /\ UNCHANGED <<config, data_store, delay_multiplier, snapshot,
                   data, reports, delays, iterations, fetches, sleep, arg>>

CallAssessDataQuality ==
    /\ pc = "call"
    /\ arg.kind = "none"
    /\ collection_stats' =
          [collection_stats EXCEPT !.data_quality_scores = assess_data_quality]
    /\ ret' = [kind |-> "assess_data_quality", val |-> quality_score]
    /\ pc' = "returned"
    /\ UNCHANGED <<config, data_store, delay_multiplier, snapshot,
                   data, reports, delays, iterations, fetches, sleep, arg>>

CallDetectAnomalies ==
    /\ pc = "call"
    /\ arg.kind = "none"
    /\ ret' = [kind |-> "detect_anomalies", val |-> detect_anomalies]
    /\ pc' = "returned"
    /\ UNCHANGED <<config, data_store, collection_stats, delay_multiplier, snapshot,
                   data, reports, delays, iterations, fetches, sleep, arg>>

CallNext ==
    \/ CallValidateData
    \/ CallProcessData
    \/ CallMakeApiRequest
    \/ CallAssessDataQuality
    \/ CallDetectAnomalies

CallSpec == CallInit /\ [][CallNext]_vars

-----------------------------------------------------------------------------
(* generate_recommendations called on an agent that has run some batches *)

Rec(text, n) == [text |-> text, n |-> n]

IncreaseDelay == Rec("Increase delay between requests or check API quota.", 0)

ExtendCollection == Rec("Extend collection time to gather more data.", 0)

(* f"High number of API failures ({api_failures}). Verify API key and network connectivity." *)
HighApiFailures(api_failures) ==
    Rec("High number of API failures. Verify API key and network connectivity.", api_failures)

(* f"Review {len(anomalies)} temperature anomalies for data quality issues." *)
ReviewAnomalies(n) == Rec("Review temperature anomalies for data quality issues.", n)

NoMajorIssues == Rec("Collection successful with no major issues.", 0)

(* generate_recommendations with <= 0.8 *)
generate_recommendations_inclusive ==
    LET recs1 == IF ~RatGt(get_success_rate, 4, 5) THEN <<IncreaseDelay>> ELSE <<>>
        recs2 == IF Len(data_store) < 10 THEN Append(recs1, ExtendCollection) ELSE recs1
    IN IF recs2 = <<>> THEN <<NoMajorIssues>> ELSE recs2

(* the list generate_recommendations returns *)
generate_recommendations ==
    LET recs1 == IF RatLt(get_success_rate, 4, 5) THEN <<IncreaseDelay>> ELSE <<>>
        recs2 == IF Len(data_store) < 10 THEN Append(recs1, ExtendCollection) ELSE recs1
    IN IF recs2 = <<>> THEN <<NoMajorIssues>> ELSE recs2

(* generate_recommendations of the assignment package. Its make_api_request *)
(* appends one 'API Request Failure' issue where it increments             *)
(* failed_requests, so api_failures is failed_requests.                    *)
generate_recommendations_assignment ==
    LET recs1 == IF RatLt(get_success_rate, 4, 5) THEN <<IncreaseDelay>> ELSE <<>>
        recs2 == IF Len(data_store) < 10 THEN Append(recs1, ExtendCollection) ELSE recs1
        api_failures == collection_stats.failed_requests
        recs3 == IF api_failures > 5 THEN Append(recs2, HighApiFailures(api_failures))
                 ELSE recs2
        anomalies == detect_anomalies
        recs4 == IF anomalies # <<>> THEN Append(recs3, ReviewAnomalies(Len(anomalies)))
                 ELSE recs3
    IN IF recs4 = <<>> THEN <<NoMajorIssues>> ELSE recs4

(* a stored record with the temperature t *)
StoredRecord(t) ==
    [city |-> Val(1), temperature |-> Val(t), humidity |-> Val(60), weather |-> Val(1)]

(* The agent after t batches over k cities: successful + failed = t * k,   *)
(* and at most one stored record per successful request.                   *)
RecInit ==
    /\ \E t \in 0..MaxTotal, s \in 0..MaxSuccessful, f \in 0..MaxFailed,
          k \in 0..(MaxSuccessful + MaxFailed) :
          /\ s + f = t * k
          /\ config = [cities |-> Cities(k), max_requests |-> t, base_delay |-> 2]
          /\ collection_stats = [total_requests |-> t, successful_requests |-> s,
                                 failed_requests |-> f, data_quality_scores |-> <<>>]
          /\ \E n \in 0..s, hot \in BOOLEAN :
                /\ hot => n > 0
                /\ data_store = [i \in 1..n |-> IF hot /\ i = n THEN StoredRecord(51)
                                                ELSE StoredRecord(20)]
    /\ delay_multiplier = Rat(1, 1)
    /\ snapshot = NoFile
    /\ data = None
    /\ pc = "call"
    /\ reports = 0
    /\ delays = 0
    /\ iterations = 0
    /\ fetches = [all_good |-> TRUE, all_failed |-> TRUE, mixed |-> FALSE,
                  null_humidity |-> FALSE]
    /\ sleep = NoSleep
    /\ arg = NoArg
    /\ ret = NoRet

CallGenerateRecommendations ==
    /\ pc = "call"
    /\ ret' = [kind |-> "generate_recommendations", val |-> generate_recommendations]
    /\ pc' = "returned"
    /\ UNCHANGED <<config, data_store, collection_stats, delay_multiplier, snapshot,
                   data, reports, delays, iterations, fetches, sleep, arg>>

CallGenerateRecommendationsAssignment ==
    /\ pc = "call"
    /\ ret' = [kind |-> "generate_recommendations_assignment",
               val |-> generate_recommendations_assignment]
    /\ pc' = "returned"
    /\ UNCHANGED <<config, data_store, collection_stats, delay_multiplier, snapshot,
                   data, reports, delays, iterations, fetches, sleep, arg>>

RecNext ==
    \/ CallGenerateRecommendations
    \/ CallGenerateRecommendationsAssignment

RecSpec == RecInit /\ [][RecNext]_vars

-----------------------------------------------------------------------------
(* Construction of the agent followed by collect_data *)

(* what __init__ finds: the config file, whether it names an environment   *)
(* variable for the API key, and the value of that variable                *)
Startups ==
    [file : {"ok", "unreadable", "malformed"},
     env_var : BOOLEAN,
     value : {"unset", "empty", "set"}]

(* load_config testing the variable with "is None" only *)
load_config_none_only(st) ==
    /\ st.file = "ok"
    /\ (st.env_var => st.value # "unset")

(* load_config returns a configuration instead of raising RuntimeError *)
load_config(st) ==
    /\ st.file = "ok"
    /\ (st.env_var => st.value = "set")

StartInit ==
    /\ config \in [cities : {Cities(n) : n \in 0..MaxCities},
                   max_requests : 0..MaxRequests,
                   base_delay : {2}]
    /\ arg \in [kind : {"startup"}, val : Startups]
    /\ data_store = <<>>
    /\ collection_stats = FreshStats
    /\ delay_multiplier = Rat(1, 1)
    /\ snapshot = NoFile
    /\ data = None
    /\ pc = "start"
    /\ reports = 0
    /\ delays = 0
    /\ iterations = 0
    /\ fetches = [all_good |-> TRUE, all_failed |-> TRUE, mixed |-> FALSE,
                  null_humidity |-> FALSE]
    /\ sleep = NoSleep
    /\ ret = NoRet

(* agent = DataCollectionAgent(config_path); agent.collect_data() *)
Construct ==
    /\ pc = "start"
    /\ pc' = IF load_config(arg.val) THEN "while" ELSE "failed"
    /\ UNCHANGED <<config, data_store, collection_stats, delay_multiplier, snapshot,
                   data, reports, delays, iterations, fetches, sleep, arg, ret>>

StartNext ==
    \/ Construct
    \/ WhileCheck
    \/ AssessStep
    \/ StrategyStep
    \/ FetchStep
    \/ ProcessStep
    \/ DelayStep
    \/ SleepReturn
    \/ ReportStep

StartSpec == StartInit /\ [][StartNext]_vars

-----------------------------------------------------------------------------
(* Properties *)

AtBoundary == pc \in {"while", "report", "done"}

N == config.max_requests

Total == collection_stats.total_requests

Successful == collection_stats.successful_requests

Failed == collection_stats.failed_requests

Scores == collection_stats.data_quality_scores

(* C1: under FairSpec, collect_data started from fresh statistics reaches  *)
(* DONE for every budget and every pattern of fetch outcomes, the run in   *)
(* which no fetch succeeds included.                                       *)
C1_Terminates == <>(pc = "done")

C1_Witness ==
    /\ pc = "done"
    /\ N = MaxRequests
    /\ Len(config.cities) = MaxCities
    /\ fetches.all_failed
    /\ iterations = MaxRequests

(* C2: with one city whose every fetch succeeds with a complete payload    *)
(* and a budget N >= 1, at DONE total_requests = successful_requests = N,  *)
(* failed_requests = 0, len(data_store) = N and the success rate is 1.0.   *)
C2_SuccessScenario ==
    (pc = "done" /\ N >= 1 /\ Len(config.cities) = 1 /\ fetches.all_good) =>
        /\ Total = N
        /\ Successful = N
        /\ Failed = 0
        /\ Len(data_store) = N
        /\ get_success_rate = Rat(1, 1)

C2_Witness ==
    /\ pc = "done"
    /\ N = MaxRequests
    /\ Len(config.cities) = 1
    /\ fetches.all_good
    /\ Len(data_store) = MaxRequests

(* C3: when every fetch fails and N >= 1, at DONE total_requests = N,      *)
(* successful_requests = 0, data_store and data_quality_scores are empty   *)
(* and the overall quality score is 0.                                     *)
C3_FailureScenario ==
    (pc = "done" /\ N >= 1 /\ fetches.all_failed) =>
        /\ Total = N
        /\ Successful = 0
        /\ data_store = <<>>
        /\ Scores = <<>>
        /\ get_overall_quality_score = Rat(0, 1)

C3_Witness ==
    /\ pc = "done"
    /\ N = 2
    /\ Len(config.cities) = MaxCities
    /\ fetches.all_failed
    /\ Failed = 2 * MaxCities

(* C4: generate_final_report runs exactly once, only from the top of the   *)
(* loop having observed total_requests >= max_requests, and after it no    *)
(* fetch, store, strategy adjustment or delay happens; also for N = 0.     *)
C4_ReportOnce ==
    /\ [](reports <= 1 /\ (pc = "done" <=> reports = 1))
    /\ [][ /\ (reports' # reports =>
                  /\ reports = 0 /\ reports' = 1
                  /\ pc = "report" /\ Total >= N)
           /\ (reports >= 1 =>
                  UNCHANGED <<collection_stats, data_store, snapshot,
                              delay_multiplier, delays, iterations>>) ]_vars

C4_Witness ==
    /\ pc = "done"
    /\ reports = 1
    /\ N = 0
    /\ iterations = 0
    /\ delays = 0

(* C5: the loop is left only from its top with total_requests >=           *)
(* max_requests; total_requests <= max_requests always and                 *)
(* total_requests = max_requests at DONE, for every number of cities.      *)
C5_NoOvershoot ==
    /\ [](Total <= N /\ (pc \in {"report", "done"} => Total = N))
    /\ [][ (pc # "report" /\ pc' = "report") => (pc = "while" /\ Total >= N) ]_vars

C5_Witness ==
    /\ pc = "done"
    /\ N = MaxRequests
    /\ Total = MaxRequests
    /\ Len(config.cities) = MaxCities

(* C6: make_api_request adds 1 to total_requests and |cities| to           *)
(* successful_requests + failed_requests, so at every iteration boundary   *)
(* successful_requests + failed_requests = total_requests * |cities|.      *)
C6_BatchCounting ==
    /\ [](AtBoundary => Successful + Failed = Total * Len(config.cities))
    /\ [][ pc = "fetch" =>
             /\ Total' = Total + 1
             /\ Successful' >= Successful /\ Failed' >= Failed
             /\ Successful' + Failed' = Successful + Failed + Len(config.cities) ]_vars

C6_Witness ==
    /\ pc = "while"
    /\ Len(config.cities) = 2
    /\ Total = 2
    /\ Successful = 3
    /\ Failed = 1

(* C7: successful_requests + failed_requests <= total_requests in every    *)
(* reachable state, the counters being non-negative.                       *)
C7_CountersBounded ==
    /\ Total >= 0 /\ Successful >= 0 /\ Failed >= 0
    /\ Successful + Failed <= Total

(* C8 as stated: after k completed iterations data_quality_scores has      *)
(* length k.                                                               *)
C8_OneScorePerIteration == AtBoundary => Len(Scores) = iterations

(* C8 amended: data_quality_scores changes only in the assessment at the   *)
(* start of an iteration, which appends exactly one score when data_store  *)
(* is non-empty and nothing when it is empty; so after k >= 1 completed    *)
(* iterations the sequence has at most k - 1 scores.                       *)
C8_ScorePerNonEmptyIteration ==
    /\ [](AtBoundary =>
            /\ Len(Scores) <= iterations
            /\ (iterations >= 1 => Len(Scores) <= iterations - 1)
            /\ (data_store = <<>> => Scores = <<>>))
    /\ [][ /\ (pc = "assess" /\ data_store # <<>> =>
                  Len(Scores') = Len(Scores) + 1 /\ SubSeq(Scores', 1, Len(Scores)) = Scores)
           /\ (pc = "assess" /\ data_store = <<>> => Scores' = Scores)
           /\ (pc # "assess" => Scores' = Scores) ]_vars

C8_Witness ==
    /\ pc = "done"
    /\ iterations = MaxRequests
    /\ Len(Scores) = MaxRequests - 1
    /\ data_store # <<>>

(* C9: in collect_data the delay multiplier starts at 1.0, never           *)
(* decreases, changes only by doubling in the strategy step, and is        *)
(* always 2^k for some k >= 0.                                             *)
C9_MultiplierMonotone ==
    /\ [](/\ delay_multiplier.den = 1
          /\ \E k \in 0..iterations : delay_multiplier.num = Pow2(k)
          /\ (iterations = 0 /\ pc \in {"while", "assess", "strategy"} =>
                 delay_multiplier = Rat(1, 1)))
    /\ [][ /\ delay_multiplier'.num * delay_multiplier.den
                >= delay_multiplier.num * delay_multiplier'.den
           /\ (delay_multiplier' # delay_multiplier =>
                  pc = "strategy" /\ delay_multiplier' = RatMul(delay_multiplier, 2, 1)) ]_vars

C9_Witness ==
    /\ pc = "done"
    /\ iterations = MaxRequests
    /\ delay_multiplier = Rat(Pow2(MaxRequests - 1), 1)
    /\ Successful > 0

(* C10: adjust_strategy doubles the delay multiplier when the success rate *)
(* is below 0.5, multiplies it by 0.8 when it is above 0.9, leaves it      *)
(* unchanged on [0.5, 0.9] (both ends included), and changes neither the   *)
(* counters nor the data store.                                            *)
C10_AdjustStrategy ==
    [][ (pc = "call" /\ pc' = "adjust_strategy_done") =>
          /\ (Total > 0 /\ 2 * Successful < Total =>
                 delay_multiplier' = RatMul(delay_multiplier, 2, 1))
          /\ (Total = 0 \/ 10 * Successful > 9 * Total =>
                 delay_multiplier' = RatMul(delay_multiplier, 4, 5))
          /\ (Total > 0 /\ 2 * Successful >= Total /\ 10 * Successful <= 9 * Total =>
                 delay_multiplier' = delay_multiplier)
          /\ UNCHANGED <<collection_stats, data_store>> ]_vars

C10_Witness ==
    /\ pc = "adjust_strategy_done"
    /\ Total = 10
    /\ Successful = 9
    /\ delay_multiplier = Rat(2, 1)

(* C11: get_success_rate returns exactly 1.0 when total_requests = 0 and   *)
(* successful_requests / total_requests otherwise, and changes no state.   *)
C11_SuccessRate ==
    /\ [](ret.kind = "get_success_rate" =>
            /\ ret.val.den > 0
            /\ (Total = 0 => ret.val.num = 1 /\ ret.val.den = 1)
            /\ (Total > 0 => ret.val.num * Total = Successful * ret.val.den))
    /\ [][ ret'.kind = "get_success_rate" =>
             UNCHANGED <<collection_stats, data_store, delay_multiplier, snapshot, config>> ]_vars

C11_Witness ==
    /\ pc = "returned"
    /\ ret.kind = "get_success_rate"
    /\ Total = 0
    /\ Successful = 0
    /\ ret.val = Rat(1, 1)

(* the k-th smallest element of a set of indices *)
KthIndex(idx, k) == CHOOSE i \in idx : Cardinality({j \in idx : j <= i}) = k

(* both fields of a record are present and not null *)
BothPresent(rec) == rec.temperature.tag = "num" /\ rec.humidity.tag = "num"

(* the indices of the payloads that have every key process_data reads *)
WellFormedIdx(items) ==
    {i \in DOMAIN items :
        /\ items[i].name.tag # "absent" /\ items[i].temp.tag # "absent"
        /\ items[i].humidity.tag # "absent" /\ items[i].weather.tag # "absent"}

(* the record process_data builds from payload p *)
RecordOf(p) ==
    [city |-> p.name, temperature |-> p.temp, humidity |-> p.humidity,
     weather |-> p.weather]

(* C12: validate_data is false for the empty sequence and whenever some    *)
(* record lacks temperature or humidity (absent or null), and true for     *)
(* every non-empty sequence whose records all have both; nothing else      *)
(* (order, other fields) enters the result.                                *)
C12_ValidateData ==
    ret.kind = "validate_data" =>
        LET records == arg.val IN
        /\ (records = <<>> => ret.val = FALSE)
        /\ ((\E i \in DOMAIN records : ~BothPresent(records[i])) => ret.val = FALSE)
        /\ ((records # <<>> /\ \A i \in DOMAIN records : BothPresent(records[i]))
               => ret.val = TRUE)

C12_Witness ==
    /\ pc = "returned"
    /\ ret.kind = "validate_data"
    /\ Len(arg.val) = 2
    /\ BothPresent(arg.val[1])
    /\ arg.val[2].temperature = Val(20)
    /\ arg.val[2].humidity = Null
    /\ ret.val = FALSE

(* C13: in an iteration whose processed batch is empty or holds a record   *)
(* with a missing temperature or humidity, nothing is stored: data_store   *)
(* and the snapshot stay as they are and the loop goes on to its delay.    *)
C13_AllOrNothing ==
    [][ pc = "process" =>
          LET items == data.items
              wf == WellFormedIdx(items)
          IN (wf = {} \/ \E i \in wf : items[i].temp.tag # "num"
                                        \/ items[i].humidity.tag # "num")
                => /\ data_store' = data_store
                   /\ snapshot' = snapshot
                   /\ pc' = "delay" ]_vars

C13_Witness ==
    /\ pc = "delay"
    /\ iterations = 0
    /\ fetches.mixed
    /\ Successful = 2
    /\ data_store = <<>>
    /\ snapshot = NoFile

(* C14: data_store only grows at its end (its old content is a prefix of   *)
(* the new one, duplicates kept), a store appends the processed batch and  *)
(* rewrites the snapshot with the whole store, so at every iteration       *)
(* boundary after the first store the snapshot equals data_store.          *)
C14_AppendOnly ==
    /\ [](AtBoundary =>
            /\ (snapshot.exists => snapshot.content = data_store)
            /\ (~snapshot.exists => data_store = <<>>))
    /\ [][ /\ Len(data_store') >= Len(data_store)
           /\ SubSeq(data_store', 1, Len(data_store)) = data_store
           /\ (data_store' # data_store =>
                 LET wf == WellFormedIdx(data.items)
                     n == Len(data_store)
                 IN /\ pc = "process"
                    /\ Len(data_store') = n + Cardinality(wf)
                    /\ \A k \in 1..Cardinality(wf) :
                          data_store'[n + k] = RecordOf(data.items[KthIndex(wf, k)])
                    /\ snapshot' = [exists |-> TRUE, content |-> data_store']) ]_vars

C14_Witness ==
    /\ pc = "while"
    /\ iterations = 2
    /\ Len(data_store) = 3
    /\ data_store[1] = data_store[3]
    /\ snapshot.exists
    /\ snapshot.content = data_store

(* C15: make_api_request counts a failure for each failing city and a      *)
(* success for each other city, attempts every city, and returns the       *)
(* bodies of the successful cities in city order, None exactly when no     *)
(* city succeeded.                                                         *)
C15_FailureIsolation ==
    /\ [](ret.kind = "make_api_request" =>
            LET resp == arg.val
                ok == {c \in DOMAIN resp : resp[c].ok}
            IN /\ pc = "returned"
               /\ (ret.val.is_none <=> ok = {})
               /\ Len(ret.val.items) = Cardinality(ok)
               /\ \A k \in 1..Cardinality(ok) :
                     ret.val.items[k] = resp[KthIndex(ok, k)].body)
    /\ [][ ret'.kind = "make_api_request" =>
             LET resp == arg.val
                 ok == {c \in DOMAIN resp : resp[c].ok}
             IN /\ Failed' = Failed + Cardinality(DOMAIN resp \ ok)
                /\ Successful' = Successful + Cardinality(ok)
                /\ Total' = Total + 1 ]_vars

C15_Witness ==
    /\ pc = "returned"
    /\ ret.kind = "make_api_request"
    /\ Len(config.cities) = 2
    /\ ~arg.val[1].ok
    /\ arg.val[2].ok
    /\ Failed = 1
    /\ Successful = 1
    /\ Len(ret.val.items) = 1
    /\ ret.val.items[1].name = Val(2)

(* C16: process_data returns one record per payload that has name,         *)
(* main.temp, main.humidity and a weather description, in input order, and *)
(* drops every other payload without stopping.                             *)
C16_ProcessData ==
    ret.kind = "process_data" =>
        LET wf == WellFormedIdx(arg.val) IN
        /\ pc = "returned"
        /\ Len(ret.val) = Cardinality(wf)
        /\ \A k \in 1..Cardinality(wf) : ret.val[k] = RecordOf(arg.val[KthIndex(wf, k)])

C16_Witness ==
    /\ pc = "returned"
    /\ ret.kind = "process_data"
    /\ Len(arg.val) = 2
    /\ arg.val[1] = NoMainPayload(1)
    /\ arg.val[2] = GoodPayload(2, 20)
    /\ Len(ret.val) = 1
    /\ ret.val[1].city = Val(2)

(* C17: an iteration runs assess, strategy (adjusting only if the success  *)
(* rate before this iteration's fetch is below 0.8), fetch, process/store, *)
(* delay, in this order; the delay happens once per iteration whatever the *)
(* batch was, so delays = batches, and each sleep is                       *)
(* base_delay * delay_multiplier * jitter with 0.5 <= jitter <= 1.5.       *)
C17_IterationOrder ==
    /\ [](AtBoundary => delays = Total /\ delays = iterations)
    /\ [][ /\ (pc = "while" => pc' \in {"assess", "report"})
           /\ (pc = "assess" => pc' = "strategy")
           /\ (pc = "strategy" =>
                 /\ pc' = "fetch"
                 /\ (delay_multiplier' # delay_multiplier =>
                        Total > 0 /\ 5 * Successful < 4 * Total))
           /\ (pc = "fetch" => pc' = "process" /\ Total' = Total + 1)
           /\ (pc = "process" => pc' = "delay")
           /\ (pc = "delay" =>
                 /\ pc' = "sleeping"
                 /\ delays' = delays + 1
                 /\ 2 * sleep'.num * delay_multiplier.den
                       >= config.base_delay * delay_multiplier.num * sleep'.den
                 /\ 2 * sleep'.num * delay_multiplier.den
                       <= 3 * config.base_delay * delay_multiplier.num * sleep'.den)
           /\ (pc = "sleeping" => pc' = "while")
           /\ (delays' # delays => pc = "delay")
           /\ (Total' # Total => pc = "fetch") ]_vars

C17_Witness ==
    /\ pc = "sleeping"
    /\ iterations = 1
    /\ data_store = <<>>
    /\ delay_multiplier = Rat(2, 1)
    /\ sleep = Rat(6, 1)
    /\ delays = 2

(* C18: assess_data_quality returns 0 on an empty store, 1.0 when every    *)
(* stored record has a temperature key, 0.875 otherwise; always in [0, 1]. *)
C18_QualityScore ==
    ret.kind = "assess_data_quality" =>
        /\ (data_store = <<>> => ret.val = [num |-> 0, den |-> 1])
        /\ ((data_store # <<>> /\ \A i \in DOMAIN data_store :
                                     data_store[i].temperature.tag # "absent")
               => ret.val = [num |-> 1, den |-> 1])
        /\ ((\E i \in DOMAIN data_store : data_store[i].temperature.tag = "absent")
               => ret.val = [num |-> 7, den |-> 8])
        /\ ret.val.num >= 0 /\ ret.val.num <= ret.val.den

C18_Witness ==
    /\ pc = "returned"
    /\ ret.kind = "assess_data_quality"
    /\ Len(data_store) = 2
    /\ data_store[1].temperature = Null
    /\ data_store[2].temperature = Val(20)
    /\ ret.val = Rat(1, 1)

(* C19: detect_anomalies returns, in store order, exactly the records with *)
(* a temperature below -40 or above 50 (strictly); -40, 50, null and       *)
(* absent temperatures are not anomalous; data_store is left as it is.     *)
C19_Anomalies ==
    /\ [](ret.kind = "detect_anomalies" =>
            LET an == {i \in DOMAIN data_store :
                          /\ data_store[i].temperature.tag = "num"
                          /\ (data_store[i].temperature.v < -40
                                \/ data_store[i].temperature.v > 50)}
            IN /\ Len(ret.val) = Cardinality(an)
               /\ \A k \in 1..Cardinality(an) : ret.val[k] = data_store[KthIndex(an, k)]
               /\ \A k \in 1..Len(ret.val) :
                     ret.val[k].temperature \notin {Val(-40), Val(50), Null, Absent})
    /\ [][ ret'.kind = "detect_anomalies" => data_store' = data_store ]_vars

C19_Witness ==
    /\ pc = "returned"
    /\ ret.kind = "detect_anomalies"
    /\ Len(data_store) = 2
    /\ data_store[1].temperature = Val(50)
    /\ data_store[2].temperature = Val(51)
    /\ ret.val = <<data_store[2]>>

(* C20: when the config file is unreadable or malformed, or names an       *)
(* API-key environment variable that is unset or empty, construction       *)
(* fails before the loop: no request, nothing counted, stored or reported. *)
C20_FatalStartup ==
    /\ [](/\ arg.kind = "startup"
          /\ \/ arg.val.file \in {"unreadable", "malformed"}
             \/ (arg.val.env_var /\ arg.val.value \in {"unset", "empty"})
          => /\ pc \in {"start", "failed"}
             /\ Total = 0 /\ Successful = 0 /\ Failed = 0
             /\ data_store = <<>> /\ snapshot = NoFile
             /\ reports = 0 /\ delays = 0)
    /\ [][ (/\ pc = "start"
            /\ \/ arg.val.file \in {"unreadable", "malformed"}
               \/ (arg.val.env_var /\ arg.val.value \in {"unset", "empty"}))
           => pc' = "failed" ]_vars

C20_Witness ==
    /\ pc = "failed"
    /\ arg.val.file = "ok"
    /\ arg.val.env_var
    /\ arg.val.value = "empty"
    /\ config.max_requests = MaxRequests
    /\ Total = 0

(* does the list recs hold the recommendation r *)
Has(recs, r) == \E i \in 1..Len(recs) : recs[i].text = r.text

(* C21: generate_recommendations includes the increase-delay entry if and  *)
(* only if the success rate is below 0.8 and the extend-collection entry   *)
(* if and only if fewer than 10 records are stored; the list is never      *)
(* empty, and the no-major-issues entry appears if and only if no other    *)
(* recommendation applies (in the assignment package: more than 5 API      *)
(* failures and stored anomalies are further recommendations). No state    *)
(* is changed.                                                             *)
C21_Recommendations ==
    /\ [](ret.kind \in {"generate_recommendations", "generate_recommendations_assignment"} =>
            LET recs == ret.val
                low_rate == Total > 0 /\ 5 * Successful < 4 * Total
                few_records == Len(data_store) < 10
                other == IF ret.kind = "generate_recommendations" THEN FALSE
                         ELSE \/ Failed > 5
                              \/ \E i \in 1..Len(data_store) :
                                    \/ data_store[i].temperature.v < -40
                                    \/ data_store[i].temperature.v > 50
            IN /\ Has(recs, IncreaseDelay) <=> low_rate
               /\ Has(recs, ExtendCollection) <=> few_records
               /\ recs # <<>>
               /\ Has(recs, NoMajorIssues) <=> ~(low_rate \/ few_records \/ other)
               /\ Has(recs, NoMajorIssues) <=> recs = <<NoMajorIssues>>)
    /\ [][ ret'.kind \in {"generate_recommendations", "generate_recommendations_assignment"} =>
             UNCHANGED <<collection_stats, data_store, delay_multiplier, snapshot, config>> ]_vars

C21_Witness ==
    /\ pc = "returned"
    /\ ret.kind = "generate_recommendations"
    /\ ret.val = <<NoMajorIssues>>
    /\ Len(data_store) = 10
    /\ 5 * Successful = 4 * Total
    /\ Total > 0

(* C22: in collect_data every stored record has a non-null temperature and *)
(* a non-null humidity; every score in data_quality_scores is exactly 1.0; *)
(* get_overall_quality_score() at the end is 0 or 1.0; and an iteration    *)
(* that starts with an empty store appends no score.                       *)
C22_StoredComplete ==
    /\ [](/\ \A i \in 1..Len(data_store) : BothPresent(data_store[i])
          /\ \A i \in 1..Len(Scores) : Scores[i] = Rat(1, 1)
          /\ (pc = "done" =>
                 get_overall_quality_score \in {Rat(0, 1), Rat(1, 1)}))
    /\ [][ (pc = "assess" /\ data_store = <<>>) => Scores' = Scores ]_vars

C22_Witness ==
    /\ pc = "done"
    /\ fetches.null_humidity
    /\ ~fetches.all_good
    /\ data_store # <<>>
    /\ Scores = <<Rat(1, 1)>>
    /\ get_overall_quality_score = Rat(1, 1)

(* C23: get_success_rate() lies in [0, 1] in every reachable state of      *)
(* collect_data, so that 1 - success_rate is never negative.               *)
C23_RateInUnitInterval ==
    LET success_rate == get_success_rate
    IN /\ success_rate.den > 0
       /\ success_rate.num >= 0
       /\ success_rate.num <= success_rate.den

(* C24: while every fetch so far has failed, the strategy check of the     *)
(* first iteration sees a success rate of 1.0 (no attempts yet) and leaves *)
(* the multiplier at 1.0, and the check of every later iteration sees a    *)
(* success rate of 0 and doubles it; after N >= 1 iterations in which      *)
(* every fetch failed the multiplier at the end is exactly 2^(N-1).        *)
C24_AllFailDoubling ==
    /\ [][ (pc = "strategy" /\ fetches.all_failed) =>
             IF iterations = 0
             THEN /\ Total = 0
                  /\ get_success_rate = Rat(1, 1)
                  /\ delay_multiplier = Rat(1, 1)
                  /\ delay_multiplier' = Rat(1, 1)
             ELSE /\ Total = iterations
                  /\ get_success_rate = Rat(0, 1)
                  /\ delay_multiplier' = RatMul(delay_multiplier, 2, 1) ]_vars
    /\ [](pc = "done" /\ fetches.all_failed /\ iterations >= 1 =>
            delay_multiplier = Rat(Pow2(iterations - 1), 1))

C24_Witness ==
    /\ pc = "done"
    /\ fetches.all_failed
    /\ Len(config.cities) = 2
    /\ iterations = MaxIterations
    /\ Failed = 2 * MaxIterations
    /\ Successful = 0
    /\ delay_multiplier = Rat(Pow2(MaxIterations - 1), 1)

====
